---- MODULE Spec2Model ----
(***************************************************************************)
(* Scroll memory (sessionStorage-backed scroll positions and the single   *)
(* "return-anchor" slot), the scrollUp helper and the navigation round     *)
(* trip of the portfolio application.                                      *)
(*                                                                         *)
(* Representation.                                                         *)
(*  - A JavaScript string is a sequence of one-character strings, so that  *)
(*    Number.prototype.toString, parseInt and template-literal             *)
(*    concatenation are computed character by character.                   *)
(*  - A JavaScript number is an integer count of HALF pixels: 3 stands for *)
(*    1.5, -2 for -1.  window.scrollY is a double and browsers report      *)
(*    fractional offsets (zoom, high-DPI displays) and, while rubber-band  *)
(*    overscrolling, negative ones.                                        *)
(*  - An optional number is <<>> (none) or <<n>>.                          *)
(***************************************************************************)
EXTENDS Integers, Sequences, FiniteSets, TLC

(* ----------------------------- bounds --------------------------------- *)

\* largest scroll offset the host reports, in half pixels (20 = 10px)
MaxOffset == 20

\* IntersectionObservers created in one run
MaxArms == 3

\* longest URL handed to the router, in path segments
MaxSegments == 3

\* redirects the router follows for one URL
MaxRedirects == 2

\* POST requests the contact form sends in one run
MaxPosts == 2

\* scroll-to-top requests of footer and header that wait for a navigation
\* or an animation frame at one time
MaxRequests == 2

\* entries the host delivers to an observer's callback in one call
MaxBatch == 2

(* ------------------------- JavaScript values --------------------------- *)

\* null: a value that is no character sequence
Null == <<"null">>

\* undefined: the result of a void function
Undefined == <<"undefined">>

\* NaN, as an optional number
NaN == <<>>

Digits == <<"0", "1", "2", "3", "4", "5", "6", "7", "8", "9">>

IsDigit(c) == \E d \in 1..10 : Digits[d] = c

DigitValue(c) == (CHOOSE d \in 1..10 : Digits[d] = c) - 1

Abs(n) == IF n < 0 THEN -n ELSE n

RECURSIVE NatToString(_)
\* decimal numeral of a natural number, most significant digit first
NatToString(n) ==
  IF n < 10 THEN <<Digits[n + 1]>>
  ELSE NatToString(n \div 10) \o <<Digits[(n % 10) + 1]>>

\* Number.prototype.toString of a number given in half pixels:
\* an optional "-", the integer part, and ".5" when the number is not whole
NumberToString(h) ==
  (IF h < 0 THEN <<"-">> ELSE <<>>)
    \o NatToString(Abs(h) \div 2)
    \o (IF Abs(h) % 2 = 1 THEN <<".", "5">> ELSE <<>>)

RECURSIVE DigitPrefix(_)
\* the longest prefix of s made of decimal digits
DigitPrefix(s) ==
  IF s = <<>> \/ ~IsDigit(Head(s)) THEN <<>>
  ELSE <<Head(s)>> \o DigitPrefix(Tail(s))

RECURSIVE DigitsToNat(_)
DigitsToNat(ds) ==
  IF ds = <<>> THEN 0
  ELSE 10 * DigitsToNat(SubSeq(ds, 1, Len(ds) - 1)) + DigitValue(ds[Len(ds)])

\* parseInt(s, 10): optional sign, then the longest run of digits; whatever
\* follows (a fraction) is ignored; NaN when there is no digit.  The result
\* is an optional number in half pixels.
ParseInt(s) ==
  LET neg  == s # <<>> /\ Head(s) = "-"
      body == IF s # <<>> /\ Head(s) \in {"-", "+"} THEN Tail(s) ELSE s
      ds   == DigitPrefix(body)
  IN  IF ds = <<>> THEN NaN
      ELSE <<(IF neg THEN -1 ELSE 1) * 2 * DigitsToNat(ds)>>

\* JavaScript truthiness of a number (NaN does not occur for scroll offsets)
TruthyNumber(n) == n # 0

\* JavaScript truthiness of a string-or-null
TruthyString(s) == s # Null /\ s # <<>>

(* --------------------------- sessionStorage ---------------------------- *)

\* Storage.getItem
GetItem(st, k) == IF k \in DOMAIN st THEN st[k] ELSE Null

\* Storage.setItem
SetItem(st, k, v) ==
  [x \in (DOMAIN st) \cup {k} |-> IF x = k THEN v ELSE st[x]]

\* Storage.removeItem
RemoveItem(st, k) == [x \in (DOMAIN st) \ {k} |-> st[x]]

\* the key 'return-anchor'
ReturnAnchorKey ==
  <<"r", "e", "t", "u", "r", "n", "-", "a", "n", "c", "h", "o", "r">>

\* the template literal `scroll-position-${key}`
ScrollPositionKey(key) ==
  <<"s", "c", "r", "o", "l", "l", "-",
    "p", "o", "s", "i", "t", "i", "o", "n", "-">> \o key

(* ------------------------- scroll-memory.ts ---------------------------- *)

\* window.scrollY || document.documentElement.scrollTop || 0
CurrentScroll(scrollY, scrollTop) ==
  IF TruthyNumber(scrollY) THEN scrollY
  ELSE IF TruthyNumber(scrollTop) THEN scrollTop
  ELSE 0

\* mutant: every key shares one record
saveScrollPosition_shared(st, key, scrollY, scrollTop) ==
  SetItem(st, ScrollPositionKey(<<>>),
          NumberToString(CurrentScroll(scrollY, scrollTop)))

\* saveScrollPosition(key): the storage after the call
saveScrollPosition(st, key, scrollY, scrollTop) ==
  SetItem(st, ScrollPositionKey(key),
          NumberToString(CurrentScroll(scrollY, scrollTop)))

\* top: position >= 0 ? position : 0   (NaN >= 0 is false)
ClampTop(position) ==
  IF position # NaN /\ position[1] >= 0 THEN position[1] ELSE 0

\* mutant: the record is removed once read
restoreScrollPosition_consuming(st, key, offset) ==
  LET stored == GetItem(st, ScrollPositionKey(key))
      parsed == ParseInt(stored)
      position == IF parsed = NaN THEN NaN ELSE <<parsed[1] - offset>>
  IN  IF ~TruthyString(stored)
      THEN [st |-> st, call |-> <<>>]
      ELSE [st |-> RemoveItem(st, ScrollPositionKey(key)),
            call |-> <<ClampTop(position)>>]

\* restoreScrollPosition(key, offset): the storage after the call and the
\* window.scrollTo call it issues (<<>> when it issues none)
restoreScrollPosition(st, key, offset) ==
  LET stored == GetItem(st, ScrollPositionKey(key))
      parsed == ParseInt(stored)
      position == IF parsed = NaN THEN NaN ELSE <<parsed[1] - offset>>
  IN  IF ~TruthyString(stored)
      THEN [st |-> st, call |-> <<>>]
      ELSE [st |-> st, call |-> <<ClampTop(position)>>]

\* mutant: the key is used without its 'scroll-position-' prefix
clearScrollPosition_unprefixed(st, key) == RemoveItem(st, key)

\* clearScrollPosition(key)
clearScrollPosition(st, key) == RemoveItem(st, ScrollPositionKey(key))

\* mutant: a pending anchor is not overwritten
setReturnAnchor_keepFirst(st, id) ==
  IF ReturnAnchorKey \in DOMAIN st THEN st ELSE SetItem(st, ReturnAnchorKey, id)

\* setReturnAnchor(id)
setReturnAnchor(st, id) == SetItem(st, ReturnAnchorKey, id)

\* mutant: the anchor is read but not removed
consumeReturnAnchor_peek(st) ==
  [st |-> st, ret |-> GetItem(st, ReturnAnchorKey)]

\* consumeReturnAnchor(): the storage after the call and the value returned
consumeReturnAnchor(st) ==
  LET v == GetItem(st, ReturnAnchorKey)
  IN  [st  |-> IF v # Null THEN RemoveItem(st, ReturnAnchorKey) ELSE st,
       ret |-> v]

(* ----------------------- scroll-to (scrollUp) -------------------------- *)

\* the root location '/'
Root == "/"

\* mutant: the fallback does not look at the current location
scrollUp_anyLocation(st, pathname, targetId, offset, ensureRoot, el, scrollY) ==
  IF el # <<>>
  THEN [st |-> st, call |-> <<(el[1] + scrollY) - offset>>, href |-> <<>>]
  ELSE IF ensureRoot
  THEN [st |-> SetItem(st, ReturnAnchorKey, targetId),
        call |-> <<>>, href |-> <<Root>>]
  ELSE [st |-> st, call |-> <<>>, href |-> <<>>]

\* scrollUp(targetId, offset, ensureRoot).  el is the result of
\* document.getElementById(targetId): <<>> when there is no such element,
\* <<t>> when there is one whose getBoundingClientRect().top is t.
\* Result: the storage after the call, the window.scrollTo call issued and
\* the location assigned to window.location.href (<<>> when none is).
scrollUp(st, pathname, targetId, offset, ensureRoot, el, scrollY) ==
  IF el # <<>>
  THEN [st |-> st, call |-> <<(el[1] + scrollY) - offset>>, href |-> <<>>]
  ELSE IF ensureRoot /\ pathname # Root
  THEN [st |-> SetItem(st, ReturnAnchorKey, targetId),
        call |-> <<>>, href |-> <<Root>>]
  ELSE [st |-> st, call |-> <<>>, href |-> <<>>]

(* ------------- footer and header component (scroll to top) ------------ *)

\* FooterComponent.isOnHomeRoute, HeaderComponent.isOnHomeRoute
isOnHomeRoute(url) == url = "/" \/ url = ""

\* mutant: the scroll is issued at once on every route
componentScrollUp_scrollFirst(url) ==
  IF isOnHomeRoute(url) THEN [call |-> <<0>>, navigate |-> <<>>]
  ELSE [call |-> <<0>>, navigate |-> <<"/">>]

\* FooterComponent.scrollUp and HeaderComponent.scrollUp, given router.url:
\* the window.scrollTo issued during the call (<<>> when none is) and the
\* URL handed to router.navigateByUrl (<<>> when none is)
componentScrollUp(url) ==
  IF isOnHomeRoute(url) THEN [call |-> <<0>>, navigate |-> <<>>]
  ELSE [call |-> <<>>, navigate |-> <<"/">>]

\* navigateHomeThenScroll: the pending requests after navigateByUrl('/')
\* has returned its promise; arrived is the history of the request: whether
\* the root view has been created since
navigateHomeThenScroll(reqs) ==
  Append(reqs, [state |-> "navigating", arrived |-> FALSE])

\* the promise of navigateByUrl('/') is resolved: its callback calls
\* requestAnimationFrame
ThenCallback(reqs) ==
  [k \in 1..Len(reqs) |->
     IF reqs[k].state = "navigating" THEN [reqs[k] EXCEPT !.state = "frame"]
     ELSE reqs[k]]

\* history: the root view was created
Arrived(reqs) == [k \in 1..Len(reqs) |-> [reqs[k] EXCEPT !.arrived = TRUE]]

(* ------------------ content.component (root view) ---------------------- *)

\* const headerOffset = 117 (pixels)
headerOffset == 2 * 117

\* mutant: the anchor is read with getItem and left in place
scrollToReturnAnchor_peek(st, el, scrollY) ==
  LET id == GetItem(st, ReturnAnchorKey)
  IN  IF ~TruthyString(id) THEN [st |-> st, call |-> <<>>]
      ELSE IF el = <<>> THEN [st |-> st, call |-> <<>>]
      ELSE [st |-> st, call |-> <<(el[1] + scrollY) - headerOffset>>]

\* mutant: the anchor is removed only when its element is found
scrollToReturnAnchor_keepOnMiss(st, el, scrollY) ==
  LET id == GetItem(st, ReturnAnchorKey)
  IN  IF ~TruthyString(id) THEN [st |-> st, call |-> <<>>]
      ELSE IF el = <<>> THEN [st |-> st, call |-> <<>>]
      ELSE [st |-> RemoveItem(st, ReturnAnchorKey),
            call |-> <<(el[1] + scrollY) - headerOffset>>]

\* ContentComponent.scrollToReturnAnchor().  el is the result of
\* document.getElementById(id) for the consumed id.
scrollToReturnAnchor(st, el, scrollY) ==
  LET c == consumeReturnAnchor(st)
  IN  IF ~TruthyString(c.ret) THEN [st |-> c.st, call |-> <<>>]
      ELSE IF el = <<>> THEN [st |-> c.st, call |-> <<>>]
      ELSE [st |-> c.st, call |-> <<(el[1] + scrollY) - headerOffset>>]

(* ------------------------------ inputs --------------------------------- *)

\* keys passed to save/restore/clearScrollPosition
Keys == {<<"x">>, <<"y">>}

Footer == <<"f", "o", "o", "t", "e", "r">>

Contact == <<"c", "o", "n", "t", "a", "c", "t">>

ScrollUpId == <<"s", "c", "r", "o", "l", "l", "U", "p">>

\* element ids passed to setReturnAnchor ('' included)
Ids == {<<>>, Footer, Contact}

\* element ids passed to scrollUp
TargetIds == {ScrollUpId, Footer}

\* values of window.scrollY, in half pixels: negative (overscroll), zero,
\* fractional and whole
HostOffsets == {-3, 0, 1, MaxOffset}

\* document.documentElement.scrollTop when window.scrollY is y: the same
\* offset, or 0 in quirks mode
ScrollTops(y) == {y, 0}

\* the offset argument of restoreScrollPosition, in half pixels
RestoreOffsets == {0, 3, MaxOffset + 1}

\* the offset argument of scrollUp, in half pixels (default 100px)
ScrollUpOffsets == {0, 2 * 100}

\* document.getElementById(id): no element, or one with some rect top;
\* no element ever has the empty id
Elements(id) == IF id = <<>> THEN {<<>>} ELSE {<<>>, <<10>>}

\* window.scrollY read by scrollUp / scrollToReturnAnchor
ViewScrolls == {1, MaxOffset}

LegalNotice == "/legal-notice"

PrivacyPolicy == "/privacy-policy"

\* the locations of the route table
Paths == {Root, LegalNotice, PrivacyPolicy}

(* ------------------- scroll-animations (reveal) ------------------------ *)

\* the reveal candidates of the templates
Elems == {"e1", "e2", "e3"}

\* the views the router shows, one at a time
Views == {"content"}

\* the view whose template holds the element
ViewOf(el) == "content"

\* the marker class the template gives the element
MarkerOf(el) == IF el = "e3" THEN "reveal-from-left" ELSE "reveal-zoom"

\* the marker classes passed to observeAnimationReveal
ClassNames == {"reveal-zoom", "reveal-from-left", "reveal-from-right"}

\* the delays passed to observeAnimationReveal, in ms
Delays == {0, 150}

\* the platform ids passed to observeAnimationReveal ("undefined": omitted)
PlatformIds == {"undefined", "browser", "server"}

\* isPlatformBrowser(platformId)
isPlatformBrowser(platformId) == platformId = "browser"

\* no view is shown yet: no element is attached, no observer exists.
\* revealObserved holds the elements with data-reveal-observed = 'true';
\* revealDelay holds, per element, the number of the '--reveal-delay' text
\* `${delay}ms`, <<>> while the property is not set; an observer is its
\* delay (the argument its callback closes over) and its targets
EmptyDom ==
  [attached       |-> {},
   destroyed      |-> {},
   classList      |-> [el \in Elems |-> {MarkerOf(el)}],
   revealObserved |-> {},
   revealDelay    |-> [el \in Elems |-> <<>>],
   observers      |-> <<>>]

\* document.querySelectorAll(`.${className}`)
querySelectorAll(d, className) ==
  {el \in d.attached : className \in d.classList[el]}

\* el.classList.add(name) for every element of els
ClassListAdd(d, els, name) ==
  [el \in Elems |-> IF el \in els THEN d.classList[el] \cup {name}
                                  ELSE d.classList[el]]

\* mutant: the data-reveal-observed guard is missing
observeAnimationReveal_unguarded(d, h, className, delay, platformId) ==
  IF platformId # "undefined" /\ ~isPlatformBrowser(platformId)
  THEN [dom |-> d, thrown |-> ""]
  ELSE IF ~h.intersectionObserver
  THEN [dom |-> d, thrown |-> "ReferenceError"]
  ELSE LET elements == querySelectorAll(d, className)
       IN  [dom |-> [d EXCEPT
                       !.revealObserved = @ \cup elements,
                       !.classList = ClassListAdd(d, elements, "reveal-init"),
                       !.observers =
                         Append(@, [delay |-> delay, targets |-> elements])],
            thrown |-> ""]

\* mutant: the platform guard is missing
observeAnimationReveal_anyPlatform(d, h, className, delay, platformId) ==
  IF ~h.intersectionObserver
  THEN [dom |-> d, thrown |-> "ReferenceError"]
  ELSE LET elements == querySelectorAll(d, className)
           fresh == elements \ d.revealObserved
       IN  [dom |-> [d EXCEPT
                       !.revealObserved = @ \cup fresh,
                       !.classList = ClassListAdd(d, fresh, "reveal-init"),
                       !.observers =
                         Append(@, [delay |-> delay, targets |-> fresh])],
            thrown |-> ""]

\* observeAnimationReveal(className, delay, platformId) on the document d of
\* the host h: returns at once on a non-browser platform id; otherwise
\* creates one IntersectionObserver (a ReferenceError where the host has
\* none) and registers every matching element that is not yet flagged
observeAnimationReveal(d, h, className, delay, platformId) ==
  IF platformId # "undefined" /\ ~isPlatformBrowser(platformId)
  THEN [dom |-> d, thrown |-> ""]
  ELSE IF ~h.intersectionObserver
  THEN [dom |-> d, thrown |-> "ReferenceError"]
  ELSE LET elements == querySelectorAll(d, className)
           fresh == elements \ d.revealObserved
       IN  [dom |-> [d EXCEPT
                       !.revealObserved = @ \cup fresh,
                       !.classList = ClassListAdd(d, fresh, "reveal-init"),
                       !.observers =
                         Append(@, [delay |-> delay, targets |-> fresh])],
            thrown |-> ""]

\* mutant: 'in-view' follows the viewport: the target stays observed and
\* loses the class when it leaves
IntersectionCallback_toggle(d, i, entering, others) ==
  [d EXCEPT
     !.classList = [el \in Elems |->
                      IF el \in entering THEN @[el] \cup {"in-view"}
                      ELSE IF el \in others THEN @[el] \ {"in-view"}
                      ELSE @[el]],
     !.revealDelay = [el \in Elems |->
                        IF el \in entering THEN <<d.observers[i].delay>>
                        ELSE @[el]]]

\* mutant: observer.disconnect() in place of observer.unobserve(el)
IntersectionCallback_disconnect(d, i, entering, others) ==
  [d EXCEPT
     !.classList = ClassListAdd(d, entering, "in-view"),
     !.revealDelay = [el \in Elems |->
                        IF el \in entering THEN <<d.observers[i].delay>>
                        ELSE @[el]],
     !.observers[i].targets = IF entering = {} THEN @ ELSE {}]

\* mutant: --reveal-delay is not set
IntersectionCallback_noDelay(d, i, entering, others) ==
  [d EXCEPT
     !.classList = ClassListAdd(d, entering, "in-view"),
     !.observers[i].targets = @ \ entering]

\* mutant: the hint is the delay of the latest call
IntersectionCallback_lastDelay(d, i, entering, others) ==
  [d EXCEPT
     !.classList = ClassListAdd(d, entering, "in-view"),
     !.revealDelay = [el \in Elems |->
                        IF el \in entering
                        THEN <<d.observers[Len(d.observers)].delay>>
                        ELSE @[el]],
     !.observers[i].targets = @ \ entering]

\* the callback of observer i, given entries with isIntersecting for the
\* targets in entering and without it for the targets in others: every
\* entering target gets 'in-view' and --reveal-delay and is unobserved
IntersectionCallback(d, i, entering, others) ==
  [d EXCEPT
     !.classList = ClassListAdd(d, entering, "in-view"),
     !.revealDelay = [el \in Elems |->
                        IF el \in entering THEN <<d.observers[i].delay>>
                        ELSE @[el]],
     !.observers[i].targets = @ \ entering]

(* ----------------------- app.routes.ts (routes) ------------------------- *)

\* the route table, in its order; redirectTo is <<>> where there is none
routes ==
  << [path |-> "", component |-> "ContentComponent", redirectTo |-> <<>>],
     [path |-> "legal-notice", component |-> "LegalNoticeComponent",
      redirectTo |-> <<>>],
     [path |-> "privacy-policy", component |-> "PrivacyPolicyComponent",
      redirectTo |-> <<>>],
     [path |-> "**", component |-> "", redirectTo |-> <<"">>] >>

\* the segments of a route path or redirect target without '/'
PathSegments(path) == IF path = "" THEN <<>> ELSE <<path>>

\* the segments of the route's path are the first segments of the URL
\* (pathMatch 'prefix', the default)
IsPrefix(parts, segs) ==
  /\ Len(parts) <= Len(segs)
  /\ \A k \in 1..Len(parts) : parts[k] = segs[k]

\* mutant: a prefix match is enough, the rest of the URL is ignored
Matches_prefix(route, segs) ==
  \/ route.path = "**"
  \/ IsPrefix(PathSegments(route.path), segs)

\* the router matches the route against the URL: '**' matches every URL;
\* any other route matches by prefix, and as none of the routes has
\* children, only when no segment is left over
Matches(route, segs) ==
  \/ route.path = "**"
  \/ /\ IsPrefix(PathSegments(route.path), segs)
     /\ Len(PathSegments(route.path)) = Len(segs)

\* the routes that match the URL
Matching(segs) == {i \in 1..Len(routes) : Matches(routes[i], segs)}

\* the first route in the order of the table that matches: 0 when none
FirstMatch(segs) ==
  IF Matching(segs) = {} THEN 0
  ELSE CHOOSE i \in Matching(segs) : \A j \in Matching(segs) : i <= j

RECURSIVE Recognize(_, _, _)
\* the router resolves the URL: it takes the first matching route, follows
\* its redirectTo and resolves the target again, or activates its component
Recognize(segs, first, redirects) ==
  LET i == FirstMatch(segs)
      matched == IF first = 0 THEN i ELSE first
  IN  IF i = 0 \/ redirects > MaxRedirects
      THEN [component |-> "", url |-> segs, matched |-> matched,
            redirects |-> redirects]
      ELSE IF routes[i].redirectTo # <<>>
      THEN Recognize(PathSegments(routes[i].redirectTo[1]), matched,
                     redirects + 1)
      ELSE [component |-> routes[i].component, url |-> segs,
            matched |-> matched, redirects |-> redirects]

\* the path segments of the URLs
Segments == {"legal-notice", "privacy-policy", "imprint", "x", "**"}

\* the URLs handed to the router: up to MaxSegments segments
Urls == UNION {[1..n -> Segments] : n \in 0..MaxSegments}

(* -------------------- contact-section (contact form) ------------------- *)

\* the controls of contactForm
Controls == {"name", "email", "message", "privacy"}

\* the values of the privacy checkbox: true and false
Checked == <<"true">>

Unchecked == <<"false">>

\* the form as constructed: empty texts, privacy unchecked, nothing touched
EmptyForm ==
  [name |-> <<>>, email |-> <<>>, message |-> <<>>, privacy |-> Unchecked,
   touched |-> {}]

\* contactForm.reset(): every value becomes null, every control untouched
ResetForm ==
  [name |-> Null, email |-> Null, message |-> Null, privacy |-> Null,
   touched |-> {}]

\* Validators.required passes: the value is not null and not the empty
\* string (a blank string passes)
Required(v) == v # Null /\ v # <<>>

\* Validators.requiredTrue passes
RequiredTrue(v) == v = Checked

\* the characters of an e-mail atom or domain label in these inputs
IsAtomChar(c) == c = "a"

\* atoms of atom characters separated by single dots
IsDotAtom(s) ==
  /\ s # <<>>
  /\ \A k \in 1..Len(s) : IsAtomChar(s[k]) \/ s[k] = "."
  /\ s[1] # "."
  /\ s[Len(s)] # "."
  /\ \A k \in 1..(Len(s) - 1) : ~(s[k] = "." /\ s[k + 1] = ".")

\* Validators.email passes: null and '' pass (required reports them), any
\* other value must be a dot-atom, '@' and a domain of dot-separated labels
Email(v) ==
  \/ v = Null
  \/ v = <<>>
  \/ \E k \in 1..Len(v) :
       /\ v[k] = "@"
       /\ IsDotAtom(SubSeq(v, 1, k - 1))
       /\ IsDotAtom(SubSeq(v, k + 1, Len(v)))

\* mutant: the privacy checkbox does not count
Valid_withoutPrivacy(f) ==
  /\ Required(f.name)
  /\ Required(f.email) /\ Email(f.email)
  /\ Required(f.message)

\* contactForm.valid: every control passes its validators
Valid(f) ==
  /\ Required(f.name)
  /\ Required(f.email) /\ Email(f.email)
  /\ Required(f.message)
  /\ RequiredTrue(f.privacy)

\* the body submitValidForm posts
Body(f) == [name |-> f.name, email |-> f.email, message |-> f.message]

\* the texts the user enters
Texts == {<<>>, <<" ">>, <<"a">>}

\* the e-mail addresses the user enters
Addresses == {<<>>, <<"a">>, <<"a", "@">>, <<"a", "@", "a">>}

\* the delay of the hide timer, in ms
HideDelay == 5000

(* ------------------------ reveal-once directive ------------------------ *)

\* the values bound to [revealOnce]
AnimClasses == {"reveal-from-left", "reveal-from-right", "reveal-zoom"}

\* the values bound to [revealDelay]: a number (of ms) is [number |-> n],
\* a string (a CSS time) is [string |-> its characters]
RevealDelays ==
  {[number |-> 0], [number |-> 150], [string |-> <<"0", "m", "s">>],
   [string |-> <<"0", ".", "2", "s">>], [string |-> <<"1", "s">>]}

\* typeof value === 'number'
IsNumber(value) == DOMAIN value = {"number"}

\* RevealOnceDirective.normalizeDelay: `${value}ms` for a number, a string
\* as it is
normalizeDelay(value) ==
  IF IsNumber(value) THEN NatToString(value.number) \o <<"m", "s">>
  ELSE value.string

\* the directive before ngOnInit: the host element has no class and no
\* style, no observer exists
NoDirective ==
  [life |-> "created", classList |-> {}, revealDelay |-> <<>>,
   observer |-> FALSE, observing |-> FALSE]

\* RevealOnceDirective.ngOnInit: initBaseClassesAndDelay, then
\* showImmediately under reduced motion, observeOnce otherwise
ngOnInit(d, h, animClass, revealDelay) ==
  LET base == [d EXCEPT !.life = "alive",
                        !.classList = @ \cup {"reveal-init", animClass},
                        !.revealDelay = normalizeDelay(revealDelay)]
  IN  IF h.reducedMotion
      THEN [base EXCEPT !.classList = @ \cup {"in-view"}]
      ELSE [base EXCEPT !.observer = TRUE, !.observing = TRUE]

\* the callback of observeOnce, given the entries of one call as the
\* sequence of their isIntersecting: `([entry]) =>` reads the first entry
\* only; if it is intersecting 'in-view' is added and the observer
\* disconnected
observeOnceCallback(d, entries) ==
  IF ~entries[1] THEN d
  ELSE [d EXCEPT !.classList = @ \cup {"in-view"}, !.observing = FALSE]

\* RevealOnceDirective.ngOnDestroy: this.observer?.disconnect()
ngOnDestroy(d) == [d EXCEPT !.life = "destroyed", !.observing = FALSE]

\* the entries of one call: one or more reports for the host element, in
\* the order the host queued them
Batches == UNION {[1..n -> BOOLEAN] : n \in 1..MaxBatch}

(* ----------------- header and app component (appearance) --------------- *)

\* HeaderComponent.availableAccents
availableAccents == {"blue", "emerald", "purple", "pink", "black", "white"}

\* the strings an 'accent' entry or a select value can hold: the accents,
\* the empty string and a name the header does not know
AccentStrings == availableAccents \cup {"", "teal"}

\* the strings a 'lang' entry can hold
LangStrings == {"", "de", "en", "fr"}

\* mutant: the accent is taken as it is
normalizeAccent_identity(accent) == accent

\* HeaderComponent.normalizeAccent
normalizeAccent(accent) ==
  IF accent \in availableAccents THEN accent ELSE "blue"

\* the header's fields and the parts of the document it touches, before the
\* constructor body runs: the field initialisers of HeaderComponent, a
\* document root without data-accent, no rendered accent select
NoHeader ==
  [constructed |-> FALSE, currentAccent |-> "purple", currentLanguage |-> "",
   menuValue |-> FALSE, menuIcon |-> "bi bi-list",
   dataAccent |-> <<>>, rendered |-> FALSE, disabled |-> {}]

\* HeaderComponent.setAccent on the header h and the localStorage ls
setAccent(h, ls, accent) ==
  LET normalizedAccent == normalizeAccent(accent)
  IN  [header |-> [h EXCEPT !.currentAccent = normalizedAccent,
                            !.dataAccent = <<normalizedAccent>>],
       localStorage |-> [ls EXCEPT !.accent = <<normalizedAccent>>]]

\* HeaderComponent.readStoredAccent: storedAccent ?? 'blue'
readStoredAccent(ls) == IF ls.accent = <<>> THEN "blue" ELSE ls.accent[1]

\* disableAccentOption and enableAccentOption act on the option nodes the
\* document holds when they are called: none before the header's view is
\* rendered
disableAccentOption(h, accent) ==
  IF h.rendered THEN [h EXCEPT !.disabled = @ \cup {accent}] ELSE h

enableAccentOption(h, accent) ==
  IF h.rendered THEN [h EXCEPT !.disabled = @ \ {accent}] ELSE h

\* HeaderComponent.applyAccentAvailability
applyAccentAvailability(h, ls, prefersDark) ==
  LET unavailableAccent == IF prefersDark THEN "black" ELSE "white"
      allowedAccent == IF prefersDark THEN "white" ELSE "black"
      g == enableAccentOption(disableAccentOption(h, unavailableAccent),
                              allowedAccent)
  IN  IF g.currentAccent = unavailableAccent THEN setAccent(g, ls, "blue")
      ELSE [header |-> g, localStorage |-> ls]

\* HeaderComponent.getInitialLanguage, given translate.currentLang
getInitialLanguage(lang) == IF lang = <<"de">> THEN "de" ELSE "en"

\* HeaderComponent.setMenuState
setMenuState(h, isOpen) ==
  [h EXCEPT !.menuValue = isOpen,
            !.menuIcon = IF isOpen THEN "bi bi-x" ELSE "bi bi-list"]

\* HeaderComponent.setLanguage without translate.use
setLanguage(h, ls, lang) ==
  [header |-> [h EXCEPT !.currentLanguage = lang],
   localStorage |-> [ls EXCEPT !.lang = <<lang>>]]

\* the constructor body of HeaderComponent, given translate.currentLang and
\* the colour scheme
HeaderConstructor(h, ls, lang, dark) ==
  LET g == [h EXCEPT !.constructed = TRUE,
                     !.currentLanguage = getInitialLanguage(lang)]
      r == setAccent(g, ls, readStoredAccent(ls))
  IN  applyAccentAvailability(r.header, r.localStorage, dark)

\* AppComponent.getSavedLanguage: 'en' off the browser, otherwise
\* localStorage.getItem('lang') || 'en'
getSavedLanguage(ls, platformId) ==
  IF ~isPlatformBrowser(platformId) THEN "en"
  ELSE IF ls.lang = <<>> \/ ls.lang = <<"">> THEN "en" ELSE ls.lang[1]

(* ------------------------------- state --------------------------------- *)

VARIABLES
  storage,        \* sessionStorage: a function from the keys present to strings
  pathname,       \* window.location.pathname / router.url
  navTarget,      \* navigation in progress: <<>> or <<path>>
  scrollCall,     \* window.scrollTo issued by the last step: <<>> or <<top>>
  ret,            \* value returned by the last step
  op,             \* the last operation: its name, its string argument (for
                  \* consumeReturnAnchor its result), its offset argument,
                  \* and the window.scrollY, element and flag it was given
  prev,           \* the operation before it
  savedAt,        \* history: per key, the host offset at its latest save
  pendingWrite,   \* history: the latest id written to the anchor slot and
                  \* not yet consumed
  anchorScrolls,  \* history: anchor scrolls of the root view since the
                  \* latest navigateTo (counted up to 2)
  dom,            \* the reveal candidates: the elements attached to the
                  \* document, their classList, dataset and style, and the
                  \* IntersectionObservers with their observed targets
  host,           \* the host: the prefers-reduced-motion media query, and
                  \* whether IntersectionObserver / sessionStorage exist
  thrown,         \* the error raised by the last step: "" when none
  rop,            \* the last operation on the reveal candidates
  registered,     \* history: per element, how often an observer was
                  \* attached to it (at most once per observer)
  requested,      \* history: per element, the delay argument of the call
                  \* that attached an observer to it: <<>> or <<ms>>
  wasInView,      \* history: the elements that carried 'in-view' before
                  \* the last step
  form,           \* contactForm: the values of its controls and the set
                  \* of touched controls
  flags,          \* the component's submitted, formSuccess and formError
  inFlight,       \* the POST requests without a response yet, by number
  timers,         \* the hide timers not fired yet, in the order they were
                  \* set: the number of the request whose success set each
  fop,            \* the last operation on the contact form
  sent,           \* history: the number of POST requests sent
  lastBody,       \* history: the body of the latest POST
  shownBy,        \* history: the request whose success set formSuccess
  directive,      \* a RevealOnceDirective and its host element: its life
                  \* cycle, the element's classList and --reveal-delay,
                  \* whether its observer exists and observes the element
  dop,            \* the last operation on the directive
  header,         \* the HeaderComponent's fields, the document root's
                  \* data-accent and the accent select's option nodes
  localStorage,   \* the entries 'accent' and 'lang' of localStorage
  prefersDark,    \* matchMedia('(prefers-color-scheme: dark)').matches
  app,            \* the AppComponent: its platform id, whether it is
                  \* constructed
  currentLang,    \* TranslateService.currentLang
  usedAtStartup,  \* the language AppComponent.initLanguage activated
  hop,            \* the last operation on the header or the app component
  requests,       \* the scroll-to-top requests of footer and header that
                  \* wait for their navigation or their animation frame
  segments,       \* the URL handed to the router, as its path segments
  resolved        \* the router's result for it: <<>> before it is resolved

\* the variables of the scroll memory and of the navigation
scrollVars == <<storage, pathname, navTarget, scrollCall, ret, op, prev,
                savedAt, pendingWrite, anchorScrolls>>

\* the variables of the reveal coordinator
revealVars == <<dom, rop, registered, requested, wasInView>>

\* the variables of the route table
routeVars == <<segments, resolved>>

\* the variables of the contact form
formVars == <<form, flags, inFlight, timers, fop, sent, lastBody, shownBy>>

\* the variables of the reveal-once directive
dirVars == <<directive, dop>>

\* the variables of the header and the app component
headerVars ==
  <<header, localStorage, prefersDark, app, currentLang, usedAtStartup, hop>>

\* the variables of the scroll-to-top requests
upVars == <<requests>>

\* the variables of the other components
uiVars == <<formVars, dirVars, headerVars, upVars>>

vars == <<scrollVars, revealVars, routeVars, uiVars, host, thrown>>

Op(name, arg, num, y, el, flag) ==
  [name |-> name, arg |-> arg, num |-> num, y |-> y, el |-> el, flag |-> flag]

\* records the operation performed by this step, which may resolve or add
\* scroll-to-top requests
ObserveScroll(o) ==
  /\ op' = o
  /\ prev' = [name |-> op.name, arg |-> op.arg, num |-> op.num]
  /\ thrown' = ""
  /\ UNCHANGED <<revealVars, routeVars, formVars, dirVars, headerVars, host>>

\* records the operation performed by this step
Observe(o) ==
  /\ ObserveScroll(o)
  /\ UNCHANGED upVars

\* the scroll memory of a new tab, on the location path
ScrollInit(path) ==
  /\ storage = <<>>
  /\ pathname = path
  /\ navTarget = <<>>
  /\ scrollCall = <<>>
  /\ ret = Undefined
  /\ op = Op("init", <<>>, 0, 0, <<>>, FALSE)
  /\ prev = [name |-> "init", arg |-> <<>>, num |-> 0]
  /\ savedAt = [k \in Keys |-> <<>>]
  /\ pendingWrite = Null
  /\ anchorScrolls = 0

ROp(name, className, delay, platformId, i, entering, others) ==
  [name |-> name, className |-> className, delay |-> delay,
   platformId |-> platformId, i |-> i, entering |-> entering,
   others |-> others]

\* the document before any view is shown
RevealInit ==
  /\ dom = EmptyDom
  /\ rop = ROp("init", "", 0, "", 0, {}, {})
  /\ registered = [el \in Elems |-> 0]
  /\ requested = [el \in Elems |-> <<>>]
  /\ wasInView = {}

\* a browser without the reduced-motion preference
Browser ==
  [reducedMotion |-> FALSE, intersectionObserver |-> TRUE,
   sessionStorage |-> TRUE]

\* a non-interactive render context: window, document, sessionStorage and
\* IntersectionObserver are not defined
Server ==
  [reducedMotion |-> FALSE, intersectionObserver |-> FALSE,
   sessionStorage |-> FALSE]

FOp(name, id) == [name |-> name, id |-> id]

\* the contact form as constructed
FormInit ==
  /\ form = EmptyForm
  /\ flags = [submitted |-> FALSE, formSuccess |-> FALSE, formError |-> FALSE]
  /\ inFlight = {}
  /\ timers = <<>>
  /\ fop = FOp("init", 0)
  /\ sent = 0
  /\ lastBody = <<>>
  /\ shownBy = 0

DOp(name, entries) == [name |-> name, entries |-> entries]

\* the directive as constructed
DirInit ==
  /\ directive = NoDirective
  /\ dop = DOp("init", <<>>)

HOp(name, value) == [name |-> name, value |-> value]

\* before the application starts on the platform platformId, with the
\* localStorage ls and the colour scheme dark: nothing is constructed
HeaderStart(ls, dark, platformId) ==
  /\ header = NoHeader
  /\ localStorage = ls
  /\ prefersDark = dark
  /\ app = [platformId |-> platformId, constructed |-> FALSE]
  /\ currentLang = <<>>
  /\ usedAtStartup = <<>>
  /\ hop = HOp("init", "")

\* a first visit in a browser with the light scheme
HeaderInit == HeaderStart([accent |-> <<>>, lang |-> <<>>], FALSE, "browser")

\* the other components as constructed
UiInit == FormInit /\ DirInit /\ HeaderInit /\ requests = <<>>

\* no URL was handed to the router yet
RouteInit ==
  /\ segments = <<>>
  /\ resolved = <<>>

Init ==
  /\ \E path \in Paths : ScrollInit(path)
  /\ RevealInit
  /\ UiInit
  /\ RouteInit
  /\ host = Browser
  /\ thrown = ""

(* ------------------- calls of the scroll-memory API -------------------- *)

CallSaveScrollPosition(key, y, top) ==
  /\ storage' = saveScrollPosition(storage, key, y, top)
  /\ scrollCall' = <<>>
  /\ ret' = Undefined
  /\ Observe(Op("saveScrollPosition", key, 0, y, <<>>, FALSE))
  /\ savedAt' = [savedAt EXCEPT ![key] = <<y>>]
  /\ UNCHANGED <<pathname, navTarget, pendingWrite, anchorScrolls>>

CallRestoreScrollPosition(key, offset) ==
  LET r == restoreScrollPosition(storage, key, offset)
  IN  /\ storage' = r.st
      /\ scrollCall' = r.call
      /\ ret' = Undefined
      /\ Observe(Op("restoreScrollPosition", key, offset, 0, <<>>, FALSE))
      /\ UNCHANGED <<pathname, navTarget, savedAt, pendingWrite, anchorScrolls>>

CallClearScrollPosition(key) ==
  /\ storage' = clearScrollPosition(storage, key)
  /\ scrollCall' = <<>>
  /\ ret' = Undefined
  /\ Observe(Op("clearScrollPosition", key, 0, 0, <<>>, FALSE))
  /\ savedAt' = [savedAt EXCEPT ![key] = <<>>]
  /\ UNCHANGED <<pathname, navTarget, pendingWrite, anchorScrolls>>

CallSetReturnAnchor(id) ==
  /\ storage' = setReturnAnchor(storage, id)
  /\ scrollCall' = <<>>
  /\ ret' = Undefined
  /\ Observe(Op("setReturnAnchor", id, 0, 0, <<>>, FALSE))
  /\ pendingWrite' = id
  /\ UNCHANGED <<pathname, navTarget, savedAt, anchorScrolls>>

CallConsumeReturnAnchor ==
  LET c == consumeReturnAnchor(storage)
  IN  /\ storage' = c.st
      /\ ret' = c.ret
      /\ scrollCall' = <<>>
      /\ Observe(Op("consumeReturnAnchor", c.ret, 0, 0, <<>>, FALSE))
      /\ pendingWrite' = Null
      /\ UNCHANGED <<pathname, navTarget, savedAt, anchorScrolls>>

\* the fallback of scrollUp applies: no element, ensureRoot, not on root
FallbackCase(el, ensureRoot) == el = <<>> /\ ensureRoot /\ pathname # Root

CallScrollUp(targetId, offset, ensureRoot, el, y) ==
  LET r == scrollUp(storage, pathname, targetId, offset, ensureRoot, el, y)
  IN  /\ storage' = r.st
      /\ scrollCall' = r.call
      /\ navTarget' = IF r.href # <<>> THEN r.href ELSE navTarget
      /\ ret' = Undefined
      /\ Observe(Op("scrollUp", targetId, offset, y, el, ensureRoot))
      /\ pendingWrite' =
           IF FallbackCase(el, ensureRoot) THEN targetId ELSE pendingWrite
      /\ UNCHANGED <<pathname, savedAt, anchorScrolls>>

\* the exported operations of scroll-memory.ts and scrollUp
ScrollMemoryOps ==
  {"saveScrollPosition", "restoreScrollPosition", "clearScrollPosition",
   "setReturnAnchor", "consumeReturnAnchor", "scrollUp"}

\* the string argument of each of them
OpArgs(name) ==
  IF name = "consumeReturnAnchor" THEN {<<>>}
  ELSE IF name = "setReturnAnchor" THEN Ids
  ELSE IF name = "scrollUp" THEN TargetIds
  ELSE Keys

\* any of these operations where sessionStorage, window and document are
\* not defined: none of them tests for the globals, so the first statement
\* raises a ReferenceError; nothing was written or scrolled before it
CallWithoutBrowser(name, arg) ==
  /\ ~host.sessionStorage
  /\ thrown' = "ReferenceError"
  /\ op' = Op(name, arg, 0, 0, <<>>, FALSE)
  /\ prev' = [name |-> op.name, arg |-> op.arg, num |-> op.num]
  /\ scrollCall' = <<>>
  /\ ret' = Undefined
  /\ UNCHANGED <<storage, pathname, navTarget, savedAt, pendingWrite,
                 anchorScrolls, revealVars, routeVars, uiVars, host>>

(* ----------------------------- navigation ------------------------------ *)

\* the history counter saturates
MaxCount == 2

Inc(n) == IF n < MaxCount THEN n + 1 ELSE n

\* AppComponent.isLegalOrPrivacyRoute
isLegalOrPrivacyRoute(url) == url = LegalNotice \/ url = PrivacyPolicy

\* the element looked up for the anchor that is pending in st
AnchorElements(st) ==
  IF GetItem(st, ReturnAnchorKey) = Null THEN {<<>>}
  ELSE Elements(GetItem(st, ReturnAnchorKey))

\* ContentComponent.ngAfterViewInit: runs when the root view is created
ngAfterViewInit(el, y) ==
  LET r == scrollToReturnAnchor(storage, el, y)
  IN  /\ storage' = r.st
      /\ scrollCall' = r.call
      /\ pathname' = Root
      /\ navTarget' = <<>>
      /\ ret' = Undefined
      /\ ObserveScroll(Op("ngAfterViewInit", GetItem(storage, ReturnAnchorKey),
                          0, y, el, FALSE))
      /\ pendingWrite' = Null
      /\ anchorScrolls' =
           IF r.call # <<>> THEN Inc(anchorScrolls) ELSE anchorScrolls
      /\ UNCHANGED savedAt

\* a navigation to the root location completes: the router (or the page
\* load started by location.href = '/') creates the ContentComponent; the
\* promise of a navigateByUrl('/') that waited for it is resolved
RouteToContent ==
  /\ navTarget = <<Root>>
  /\ pathname # Root
  /\ requests' = Arrived(ThenCallback(requests))
  /\ \E el \in AnchorElements(storage), y \in ViewScrolls : ngAfterViewInit(el, y)

\* the user reloads the page on the root location: sessionStorage survives,
\* pending callbacks do not, and the ContentComponent is created again
ReloadContent ==
  /\ pathname = Root
  /\ requests' = <<>>
  /\ \E el \in AnchorElements(storage), y \in ViewScrolls : ngAfterViewInit(el, y)

\* any other navigation completes; AppComponent.initRouteScrollBehavior
\* scrolls to the top on the legal and privacy routes
NavigationEnd ==
  /\ navTarget # <<>>
  /\ ~(navTarget = <<Root>> /\ pathname # Root)
  /\ pathname' = navTarget[1]
  /\ navTarget' = <<>>
  /\ scrollCall' = IF isLegalOrPrivacyRoute(navTarget[1]) THEN <<0>> ELSE <<>>
  /\ ret' = Undefined
  /\ Observe(Op("navigationEnd", <<>>, 0, 0, <<>>, FALSE))
  /\ UNCHANGED <<storage, savedAt, pendingWrite, anchorScrolls>>

\* the user starts a navigation (link, back button, address bar)
UserNavigate(path) ==
  /\ navTarget' = <<path>>
  /\ scrollCall' = <<>>
  /\ ret' = Undefined
  /\ Observe(Op("userNavigate", <<>>, 0, 0, <<>>, FALSE))
  /\ UNCHANGED <<storage, pathname, savedAt, pendingWrite, anchorScrolls>>

\* the root view is created
ContentCreated ==
  \/ RouteToContent
  \/ ReloadContent

Navigation ==
  \/ ContentCreated
  \/ NavigationEnd
  \/ \E path \in Paths : UserNavigate(path)

(* ------------------------- component handlers -------------------------- *)

\* FooterComponent.navigateTo(path); the footer is part of every view
FooterNavigateTo(path) ==
  /\ storage' = setReturnAnchor(storage, Footer)
  /\ navTarget' = <<path>>
  /\ scrollCall' = <<>>
  /\ ret' = Undefined
  /\ Observe(Op("footer.navigateTo", Footer, 0, 0, <<>>, FALSE))
  /\ pendingWrite' = Footer
  /\ anchorScrolls' = 0
  /\ UNCHANGED <<pathname, savedAt>>

\* ContactSectionComponent.navigateTo(path); the contact section is part of
\* the root view only
ContactNavigateTo(path) ==
  /\ pathname = Root
  /\ storage' = setReturnAnchor(storage, Contact)
  /\ navTarget' = <<path>>
  /\ scrollCall' = <<>>
  /\ ret' = Undefined
  /\ Observe(Op("contact.navigateTo", Contact, 0, 0, <<>>, FALSE))
  /\ pendingWrite' = Contact
  /\ anchorScrolls' = 0
  /\ UNCHANGED <<pathname, savedAt>>

\* ContactSectionComponent.scrollUp(): scrollUp('scrollUp', 100)
ContactScrollUp ==
  /\ pathname = Root
  /\ \E el \in Elements(ScrollUpId), y \in ViewScrolls :
       CallScrollUp(ScrollUpId, 2 * 100, FALSE, el, y)

\* FooterComponent.scrollUp and HeaderComponent.scrollUp of the component
\* who; footer and header are part of every view, and router.url is the
\* location shown
ComponentScrollUp(who) ==
  /\ navTarget = <<>>
  /\ Len(requests) < MaxRequests
  /\ LET r == componentScrollUp(pathname)
     IN  /\ scrollCall' = r.call
         /\ navTarget' = r.navigate
         /\ requests' = IF r.navigate = <<>> THEN requests
                        ELSE navigateHomeThenScroll(requests)
  /\ ret' = Undefined
  /\ ObserveScroll(Op(who, <<>>, 0, 0, <<>>, FALSE))
  /\ UNCHANGED <<storage, pathname, savedAt, pendingWrite, anchorScrolls>>

\* the next animation frame: the callback of the oldest request that waits
\* for one runs scrollToTopSmooth
AnimationFrame ==
  /\ requests # <<>>
  /\ requests[1].state = "frame"
  /\ requests' = Tail(requests)
  /\ scrollCall' = <<0>>
  /\ ret' = Undefined
  /\ ObserveScroll(Op("animationFrame", <<>>, 0, 0, <<>>, requests[1].arrived))
  /\ UNCHANGED <<storage, pathname, navTarget, savedAt, pendingWrite,
                 anchorScrolls>>

(* ------------------- calls of the reveal coordinator ------------------- *)

\* the observers created while the document went from d to e
Created(d, e) == Len(d.observers) + 1 .. Len(e.observers)

\* the history counter of observer.observe(el): one more per observer created
\* in this step that holds el
Registered(d, e) ==
  [el \in Elems |->
     registered[el] +
       Cardinality({i \in Created(d, e) : el \in e.observers[i].targets})]

\* the history of the delay arguments: the delay of the first observer that
\* ever held el
Requested(d, e) ==
  [el \in Elems |->
     LET held == {i \in Created(d, e) : el \in e.observers[i].targets}
     IN  IF held = {} \/ requested[el] # <<>> THEN requested[el]
         ELSE <<e.observers[CHOOSE i \in held : \A j \in held : i <= j].delay>>]

\* the elements that carry 'in-view'
InView(d) == {el \in Elems : "in-view" \in d.classList[el]}

\* records the operation on the reveal candidates performed by this step,
\* which took the document to e
ObserveReveal(o, e) ==
  /\ dom' = e
  /\ rop' = o
  /\ registered' = Registered(dom, e)
  /\ requested' = Requested(dom, e)
  /\ wasInView' = InView(dom)
  /\ UNCHANGED <<scrollVars, routeVars, uiVars, host>>

CallObserveAnimationReveal(className, delay, platformId) ==
  /\ Len(dom.observers) < MaxArms
  /\ LET r == observeAnimationReveal(dom, host, className, delay, platformId)
     IN  /\ thrown' = r.thrown
         /\ ObserveReveal(ROp("observeAnimationReveal", className, delay,
                              platformId, 0, {}, {}), r.dom)

\* the three calls of RefSectionComponent.ngAfterViewInit on the document
\* d, which end at the first error
RefSectionCalls(d, h) ==
  LET r1 == observeAnimationReveal(d, h, "reveal-zoom", 0, "browser")
      r2 == observeAnimationReveal(r1.dom, h, "reveal-from-left", 150,
                                   "browser")
      r3 == observeAnimationReveal(r2.dom, h, "reveal-from-right", 150,
                                   "browser")
  IN  IF r1.thrown # "" THEN r1 ELSE IF r2.thrown # "" THEN r2 ELSE r3

\* RefSectionComponent.ngAfterViewInit: returns when the user prefers
\* reduced motion, otherwise calls observeAnimationReveal three times
RefSectionAfterViewInit ==
  /\ "e1" \in dom.attached
  /\ Len(dom.observers) + 3 <= MaxArms
  /\ LET r == IF host.reducedMotion THEN [dom |-> dom, thrown |-> ""]
              ELSE RefSectionCalls(dom, host)
     IN  /\ thrown' = r.thrown
         /\ ObserveReveal(ROp("RefSection.ngAfterViewInit", "", 0, "browser",
                              0, {}, {}), r.dom)

\* the host delivers entries to the callback of observer i: for observed
\* targets only, and isIntersecting only for targets in the document
Intersection(i, entering, others) ==
  /\ i \in 1..Len(dom.observers)
  /\ entering \cup others # {}
  /\ entering \cap others = {}
  /\ entering \cup others \subseteq dom.observers[i].targets
  /\ entering \subseteq dom.attached
  /\ thrown' = ""
  /\ ObserveReveal(ROp("intersection", "", 0, "", i, entering, others),
                   IntersectionCallback(dom, i, entering, others))

\* the router shows view v: the elements of its template are created
CreateView(v) ==
  /\ dom.attached = {}
  /\ \A el \in Elems : ViewOf(el) = v => el \notin dom.destroyed
  /\ thrown' = ""
  /\ ObserveReveal(ROp("createView", v, 0, "", 0, {}, {}),
                   [dom EXCEPT !.attached = {el \in Elems : ViewOf(el) = v}])

\* the router tears the shown view down: its elements leave the document;
\* the components that call observeAnimationReveal have no ngOnDestroy and
\* keep no reference to their observers
DestroyView ==
  /\ dom.attached # {}
  /\ thrown' = ""
  /\ ObserveReveal(ROp("destroyView", "", 0, "", 0, {}, {}),
                   [dom EXCEPT !.attached = {},
                               !.destroyed = @ \cup dom.attached])

(* ------------------------------- router -------------------------------- *)

\* the router resolves the URL it was handed
RouterRecognize ==
  /\ resolved = <<>>
  /\ resolved' = <<Recognize(segments, 0, 0)>>
  /\ UNCHANGED <<segments, scrollVars, revealVars, uiVars, host, thrown>>

\* the next URL is handed to the router
RouterNavigate(u) ==
  /\ resolved # <<>>
  /\ segments' = u
  /\ resolved' = <<>>
  /\ UNCHANGED <<scrollVars, revealVars, uiVars, host, thrown>>

(* ---------------------------- contact form ---------------------------- *)

\* records the operation on the contact form performed by this step
ObserveForm(o) ==
  /\ fop' = o
  /\ thrown' = ""
  /\ UNCHANGED <<scrollVars, revealVars, routeVars, dirVars, headerVars,
                 upVars, host>>

\* the user changes the value of a control and leaves it: with updateOn
\* 'blur' the form takes the value and marks the control touched
UserEdit(ctrl, v) ==
  /\ form' = [form EXCEPT ![ctrl] = v, !.touched = @ \cup {ctrl}]
  /\ form' # form
  /\ ObserveForm(FOp("edit", 0))
  /\ UNCHANGED <<flags, inFlight, timers, sent, lastBody, shownBy>>

\* ContactSectionComponent.onSubmit with submitValidForm: sets submitted,
\* clears both messages; an invalid form is marked touched and nothing is
\* sent; a valid form is posted with its name, email and message
OnSubmit ==
  /\ Valid(form) => sent < MaxPosts
  /\ flags' = [submitted |-> TRUE, formSuccess |-> FALSE, formError |-> FALSE]
  /\ IF ~Valid(form)
     THEN /\ form' = [form EXCEPT !.touched = Controls]
          /\ UNCHANGED <<inFlight, sent, lastBody>>
     ELSE /\ inFlight' = inFlight \cup {sent + 1}
          /\ sent' = sent + 1
          /\ lastBody' = <<Body(form)>>
          /\ UNCHANGED form
  /\ ObserveForm(FOp("onSubmit", 0))
  /\ UNCHANGED <<timers, shownBy>>

\* the POST of request id succeeds: handleSubmitSuccess shows the success
\* message, resets the form, clears submitted and sets the hide timer
HandleSubmitSuccess(id) ==
  /\ id \in inFlight
  /\ inFlight' = inFlight \ {id}
  /\ flags' = [flags EXCEPT !.formSuccess = TRUE, !.submitted = FALSE]
  /\ form' = ResetForm
  /\ timers' = Append(timers, id)
  /\ shownBy' = id
  /\ ObserveForm(FOp("success", id))
  /\ UNCHANGED <<sent, lastBody>>

\* the POST of request id fails: the error callback shows the error message
HandleSubmitError(id) ==
  /\ id \in inFlight
  /\ inFlight' = inFlight \ {id}
  /\ flags' = [flags EXCEPT !.formError = TRUE]
  /\ ObserveForm(FOp("error", id))
  /\ UNCHANGED <<form, timers, sent, lastBody, shownBy>>

\* the oldest hide timer fires, HideDelay after its success: the success
\* message is hidden
HideTimer ==
  /\ timers # <<>>
  /\ timers' = Tail(timers)
  /\ flags' = [flags EXCEPT !.formSuccess = FALSE]
  /\ ObserveForm(FOp("timer", Head(timers)))
  /\ UNCHANGED <<form, inFlight, sent, lastBody, shownBy>>

(* ---------------------- header and app component ----------------------- *)

\* records the operation on the header performed by this step, which took
\* the header and the localStorage to r
ObserveHeader(o, r) ==
  /\ header' = r.header
  /\ localStorage' = r.localStorage
  /\ hop' = o
  /\ UNCHANGED <<scrollVars, revealVars, routeVars, formVars, dirVars, upVars,
                 host>>

\* new AppComponent(): initLanguage activates the saved language
AppConstruct ==
  /\ ~app.constructed
  /\ LET savedLang == getSavedLanguage(localStorage, app.platformId)
     IN  /\ currentLang' = <<savedLang>>
         /\ usedAtStartup' = <<savedLang>>
         /\ app' = [app EXCEPT !.constructed = TRUE]
         /\ thrown' = ""
         /\ UNCHANGED prefersDark
         /\ ObserveHeader(HOp("AppComponent", savedLang),
                          [header |-> header, localStorage |-> localStorage])

\* new HeaderComponent(), while the root view is created: the field
\* initialiser reads window.matchMedia, which is a ReferenceError off the
\* browser
HeaderConstruct ==
  /\ app.constructed
  /\ ~header.constructed
  /\ UNCHANGED <<prefersDark, app, usedAtStartup>>
  /\ IF ~isPlatformBrowser(app.platformId)
     THEN /\ thrown' = "ReferenceError"
          /\ UNCHANGED currentLang
          /\ ObserveHeader(HOp("HeaderComponent", ""),
                           [header |-> header, localStorage |-> localStorage])
     ELSE /\ thrown' = ""
          /\ currentLang' = <<getInitialLanguage(currentLang)>>
          /\ ObserveHeader(HOp("HeaderComponent", readStoredAccent(localStorage)),
                           HeaderConstructor(header, localStorage, currentLang,
                                             prefersDark))

\* the header's view is rendered: the accent select and its options are in
\* the document, every option enabled
HeaderRender ==
  /\ header.constructed
  /\ ~header.rendered
  /\ thrown' = ""
  /\ UNCHANGED <<prefersDark, app, currentLang, usedAtStartup>>
  /\ ObserveHeader(HOp("render", ""),
                   [header |-> [header EXCEPT !.rendered = TRUE],
                    localStorage |-> localStorage])

\* HeaderComponent.onAccentChange for a change event without a target
\* (target = <<>>) or with the select as target, whose value is the value
\* of an option that is not disabled
OnAccentChange(target) ==
  /\ header.rendered
  /\ target # <<>> => target[1] \notin header.disabled
  /\ thrown' = ""
  /\ UNCHANGED <<prefersDark, app, currentLang, usedAtStartup>>
  /\ IF target = <<>>
     THEN ObserveHeader(HOp("onAccentChange(null)", ""),
                        [header |-> header, localStorage |-> localStorage])
     ELSE ObserveHeader(HOp("onAccentChange", target[1]),
                        setAccent(header, localStorage, target[1]))

\* the system colour scheme changes; the listener attached by
\* attachDarkModeListener calls applyAccentAvailability(event.matches)
SchemeChange ==
  /\ prefersDark' = ~prefersDark
  /\ thrown' = ""
  /\ UNCHANGED <<app, currentLang, usedAtStartup>>
  /\ IF header.constructed
     THEN ObserveHeader(HOp("schemeChange", ""),
                        applyAccentAvailability(header, localStorage,
                                                ~prefersDark))
     ELSE ObserveHeader(HOp("schemeChange", ""),
                        [header |-> header, localStorage |-> localStorage])

\* HeaderComponent.switchToGerman and switchToEnglish: setLanguage (with
\* translate.use), then closeMenu
SwitchLanguage(lang) ==
  /\ header.rendered
  /\ thrown' = ""
  /\ currentLang' = <<lang>>
  /\ UNCHANGED <<prefersDark, app, usedAtStartup>>
  /\ LET r == setLanguage(header, localStorage, lang)
     IN  ObserveHeader(HOp("setLanguage", lang),
                       [r EXCEPT !.header = setMenuState(@, FALSE)])

\* HeaderComponent.openMenu: toggles the burger menu
OpenMenu ==
  /\ header.rendered
  /\ thrown' = ""
  /\ UNCHANGED <<prefersDark, app, currentLang, usedAtStartup>>
  /\ ObserveHeader(HOp("openMenu", ""),
                   [header |-> setMenuState(header, ~header.menuValue),
                    localStorage |-> localStorage])

(* ----------------------- reveal-once directive ------------------------- *)

\* records the operation on the directive performed by this step, which
\* took it to d
ObserveDirective(o, d) ==
  /\ directive' = d
  /\ dop' = o
  /\ thrown' = ""
  /\ UNCHANGED <<scrollVars, revealVars, routeVars, formVars, headerVars,
                 upVars, host>>

\* the view that holds the host element is created
DirectiveInit(animClass, revealDelay) ==
  /\ directive.life = "created"
  /\ ObserveDirective(DOp("ngOnInit", <<>>),
                      ngOnInit(directive, host, animClass, revealDelay))

\* the host calls the observer's callback with its queued entries
DirectiveIntersection(entries) ==
  /\ directive.observing
  /\ ObserveDirective(DOp("intersection", entries),
                      observeOnceCallback(directive, entries))

\* the view that holds the host element is destroyed
DirectiveDestroy ==
  /\ directive.life = "alive"
  /\ ObserveDirective(DOp("ngOnDestroy", <<>>), ngOnDestroy(directive))

(* --------------------------- specifications ---------------------------- *)

\* the five operations of scroll-memory.ts called with arbitrary arguments
Next ==
  \/ \E key \in Keys, y \in HostOffsets :
       \E top \in ScrollTops(y) : CallSaveScrollPosition(key, y, top)
  \/ \E key \in Keys, offset \in RestoreOffsets :
       CallRestoreScrollPosition(key, offset)
  \/ \E key \in Keys : CallClearScrollPosition(key)
  \/ \E id \in Ids : CallSetReturnAnchor(id)
  \/ CallConsumeReturnAnchor

Spec == Init /\ [][Next]_vars

\* the writers and readers of the 'return-anchor' slot called with arbitrary
\* arguments; the root view is created when a navigation to root completes
\* or the page is reloaded
NextAnchor ==
  \/ \E id \in Ids : CallSetReturnAnchor(id)
  \/ CallConsumeReturnAnchor
  \/ \E id \in TargetIds, offset \in ScrollUpOffsets, ensureRoot \in BOOLEAN :
       \E el \in Elements(id), y \in ViewScrolls :
         CallScrollUp(id, offset, ensureRoot, el, y)
  \/ ContentCreated

SpecAnchor == Init /\ [][NextAnchor]_vars

\* the application: the handlers of its components, as they call the API
NextApp ==
  \/ \E path \in Paths : FooterNavigateTo(path)
  \/ \E path \in Paths : ContactNavigateTo(path)
  \/ ContactScrollUp
  \/ Navigation

SpecApp == Init /\ [][NextApp]_vars

\* the links and the scroll-to-top controls of footer and header; the routes
\* are components without guards or resolvers, so a navigation of the
\* router completes before the next event of the user
NextUp ==
  \/ \E path \in Paths : navTarget = <<>> /\ FooterNavigateTo(path)
  \/ \E path \in Paths : navTarget = <<>> /\ ContactNavigateTo(path)
  \/ RouteToContent
  \/ ReloadContent
  \/ NavigationEnd
  \/ \E who \in {"footer.scrollUp", "header.scrollUp"} : ComponentScrollUp(who)
  \/ AnimationFrame

SpecUp == Init /\ [][NextUp]_vars

\* the scroll memory in a browser and in a non-interactive render context
InitRender ==
  /\ \E path \in Paths : ScrollInit(path)
  /\ RevealInit
  /\ UiInit
  /\ RouteInit
  /\ host \in {Browser, Server}
  /\ thrown = ""

\* the writers and readers of the anchor slot and scrollUp in the browser,
\* and every operation where the browser globals are missing
NextRender ==
  \/ \E id \in Ids : host.sessionStorage /\ CallSetReturnAnchor(id)
  \/ host.sessionStorage /\ CallConsumeReturnAnchor
  \/ \E id \in TargetIds, offset \in ScrollUpOffsets, ensureRoot \in BOOLEAN :
       \E el \in Elements(id), y \in ViewScrolls :
         host.sessionStorage /\ CallScrollUp(id, offset, ensureRoot, el, y)
  \/ host.sessionStorage /\ RouteToContent
  \/ host.sessionStorage /\ ReloadContent
  \/ \E name \in ScrollMemoryOps :
       \E arg \in OpArgs(name) : CallWithoutBrowser(name, arg)

SpecRender == InitRender /\ [][NextRender]_vars

\* the contact form of the root view in a browser
InitForm ==
  /\ ScrollInit(Root)
  /\ RevealInit
  /\ UiInit
  /\ RouteInit
  /\ host = Browser
  /\ thrown = ""

\* the user edits and submits, the requests are answered in any order, the
\* hide timers fire
NextForm ==
  \/ \E v \in Texts : UserEdit("name", v)
  \/ \E v \in Addresses : UserEdit("email", v)
  \/ \E v \in Texts : UserEdit("message", v)
  \/ \E v \in {Checked, Unchecked} : UserEdit("privacy", v)
  \/ OnSubmit
  \/ \E id \in 1..MaxPosts : HandleSubmitSuccess(id)
  \/ \E id \in 1..MaxPosts : HandleSubmitError(id)
  \/ HideTimer

SpecForm == InitForm /\ [][NextForm]_vars

\* the router is handed any URL
InitRoutes ==
  /\ ScrollInit(Root)
  /\ RevealInit
  /\ UiInit
  /\ segments \in Urls
  /\ resolved = <<>>
  /\ host = Browser
  /\ thrown = ""

NextRoutes ==
  \/ RouterRecognize
  \/ \E u \in Urls : RouterNavigate(u)

SpecRoutes == InitRoutes /\ [][NextRoutes]_vars

\* the reveal coordinator in a browser, with and without the reduced-motion
\* preference
InitReveal ==
  /\ ScrollInit(Root)
  /\ RevealInit
  /\ UiInit
  /\ RouteInit
  /\ host \in [reducedMotion : BOOLEAN, intersectionObserver : {TRUE},
               sessionStorage : {TRUE}]
  /\ thrown = ""

\* the same on any host, with and without IntersectionObserver
InitRevealHosts ==
  /\ ScrollInit(Root)
  /\ RevealInit
  /\ UiInit
  /\ RouteInit
  /\ host \in [reducedMotion : BOOLEAN, intersectionObserver : BOOLEAN,
               sessionStorage : {TRUE}]
  /\ thrown = ""

\* observeAnimationReveal called with arbitrary arguments, its caller
\* RefSectionComponent, the observers' callbacks and the views' life cycle
NextReveal ==
  \/ \E className \in ClassNames, delay \in Delays, platformId \in PlatformIds :
       CallObserveAnimationReveal(className, delay, platformId)
  \/ RefSectionAfterViewInit
  \/ \E i \in 1..MaxArms, entering \in SUBSET Elems, others \in SUBSET Elems :
       Intersection(i, entering, others)
  \/ \E v \in Views : CreateView(v)
  \/ DestroyView

SpecReveal == InitReveal /\ [][NextReveal]_vars

SpecRevealHosts == InitRevealHosts /\ [][NextReveal]_vars

\* the application starts with any content of the localStorage entries
\* 'accent' and 'lang', in either colour scheme, in the browser or in a
\* non-browser render context
InitHeader ==
  /\ ScrollInit(Root)
  /\ RevealInit
  /\ FormInit
  /\ DirInit
  /\ RouteInit
  /\ \E accent \in {<<>>} \cup {<<a>> : a \in AccentStrings},
        lang \in {<<>>} \cup {<<l>> : l \in LangStrings},
        dark \in BOOLEAN, platformId \in {"browser", "server"} :
       HeaderStart([accent |-> accent, lang |-> lang], dark, platformId)
  /\ requests = <<>>
  /\ host = Browser
  /\ thrown = ""

\* startup, then the user's and the system's events in any order
NextHeader ==
  \/ AppConstruct
  \/ HeaderConstruct
  \/ HeaderRender
  \/ \E target \in {<<>>} \cup {<<a>> : a \in AccentStrings} :
       OnAccentChange(target)
  \/ SchemeChange
  \/ \E lang \in {"de", "en"} : SwitchLanguage(lang)
  \/ OpenMenu

SpecHeader == InitHeader /\ [][NextHeader]_vars

\* a reveal-once directive in a browser, with and without the
\* reduced-motion preference
NextDirective ==
  \/ \E animClass \in AnimClasses, revealDelay \in RevealDelays :
       DirectiveInit(animClass, revealDelay)
  \/ \E entries \in Batches : DirectiveIntersection(entries)
  \/ DirectiveDestroy

SpecDirective == InitReveal /\ [][NextDirective]_vars

(* ------------------------------ properties ----------------------------- *)

Max(a, b) == IF a >= b THEN a ELSE b

\* the record stored for key, Null when there is none
Record(key) == GetItem(storage, ScrollPositionKey(key))

\* the pending return anchor, Null when there is none
Anchor == GetItem(storage, ReturnAnchorKey)

\* s is the numeral of an integer >= 0: digits only
IsNatNumeral(s) == s # <<>> /\ \A i \in 1..Len(s) : IsDigit(s[i])

\* C1: consumeReturnAnchor is read-once: after a call the 'return-anchor'
\* slot is empty, and a call that directly follows another call returns null.
C1_ReadOnce ==
  op.name = "consumeReturnAnchor" =>
    /\ Anchor = Null
    /\ (prev.name = "consumeReturnAnchor" => ret = Null)

\* two consecutive calls, the first of which returned the stored 'footer'
C1_Witness ==
  /\ prev.name = "consumeReturnAnchor"
  /\ prev.arg = Footer
  /\ op.name = "consumeReturnAnchor"
  /\ ret = Null

\* C2: one pending slot: consumeReturnAnchor returns the id of the most
\* recent write (setReturnAnchor or the scrollUp fallback) that has not been
\* consumed, null when there is none; earlier ids are never returned.
C2_LatestWrite ==
  [][op'.name = "consumeReturnAnchor" => ret' = pendingWrite]_vars

\* an id written by the scrollUp fallback is what the next consume returns
C2_Witness ==
  /\ prev.name = "scrollUp"
  /\ op.name = "consumeReturnAnchor"
  /\ ret = ScrollUpId

\* C3: after a navigateTo the root view scrolls to the stored anchor at
\* most once, and only to an anchor a navigateTo stored; re-initialising the
\* root view without a new navigateTo scrolls to no anchor.
C3_ConsumedOnce ==
  /\ anchorScrolls <= 1
  /\ (op.name = "ngAfterViewInit" /\ scrollCall # <<>>
        => op.arg \in {Footer, Contact})

\* the root view was re-initialised after its one anchor scroll and did not
\* scroll
C3_Witness ==
  /\ anchorScrolls = 1
  /\ prev.name = "ngAfterViewInit"
  /\ prev.arg = Footer
  /\ op.name = "ngAfterViewInit"
  /\ scrollCall = <<>>

\* C4: when a record exists restoreScrollPosition scrolls to
\* max(0, storedOffset - offset).
C4_ClampedDifference ==
  (op.name = "restoreScrollPosition" /\ savedAt[op.arg] # <<>>)
    => scrollCall = <<Max(0, savedAt[op.arg][1] - op.num)>>

\* C5: saveScrollPosition(x) followed by restoreScrollPosition(x, 0) scrolls
\* to exactly the offset that was current at the save.
C5_RoundTrip ==
  ( /\ prev.name = "saveScrollPosition"
    /\ op.name = "restoreScrollPosition"
    /\ prev.arg = op.arg
    /\ op.num = 0 )
    => scrollCall = savedAt[op.arg]

\* C6: restoreScrollPosition(x) issues no scroll when there is no record
\* for x: x was never saved, or was cleared after its latest save.
C6_NoRecordNoScroll ==
  (op.name = "restoreScrollPosition" /\ savedAt[op.arg] = <<>>)
    => scrollCall = <<>>

\* a restore that directly follows the clear of the same key
C6_Witness ==
  /\ prev.name = "clearScrollPosition"
  /\ op.name = "restoreScrollPosition"
  /\ prev.arg = op.arg
  /\ scrollCall = <<>>
  /\ \E k \in Keys : Record(k) # Null

\* C7: every scroll record in session storage is an integer >= 0.
C7_NonNegativeInteger ==
  \A k \in Keys : Record(k) # Null => IsNatNumeral(Record(k))

\* C8: one record per key, overwritten by a save and removed by a clear:
\* the record of k is the offset of the latest save of k, absent when a
\* clear came later; saving or clearing k changes no other entry of the store
\* (the records of other keys, the return anchor).
C8_KeyedOverwrite ==
  [][ /\ \A k \in Keys :
           GetItem(storage', ScrollPositionKey(k)) =
             IF savedAt'[k] = <<>> THEN Null
             ELSE NumberToString(savedAt'[k][1])
      /\ DOMAIN storage' \subseteq
           {ReturnAnchorKey} \cup {ScrollPositionKey(k) : k \in Keys}
      /\ (op'.name \in {"saveScrollPosition", "clearScrollPosition"} =>
            \A x \in ((DOMAIN storage) \cup (DOMAIN storage'))
                       \ {ScrollPositionKey(op'.arg)} :
              GetItem(storage', x) = GetItem(storage, x))
    ]_vars

\* a save overwrote the record of its key while the other key and the
\* anchor slot held values
C8_Witness ==
  /\ prev.name = "saveScrollPosition"
  /\ op.name = "saveScrollPosition"
  /\ prev.arg = op.arg
  /\ Record(op.arg) = NumberToString(op.y)
  /\ \E k \in Keys \ {op.arg} : Record(k) # Null
  /\ Anchor = Contact

\* C9: restoreScrollPosition leaves session storage unchanged, and a
\* restore that repeats the previous one scrolls to the same target.
C9_NonDestructive ==
  [][op'.name = "restoreScrollPosition" =>
       /\ storage' = storage
       /\ ( /\ op.name = "restoreScrollPosition"
            /\ op.arg = op'.arg
            /\ op.num = op'.num )
          => scrollCall' = scrollCall
    ]_vars

\* the same restore twice in a row, scrolling
C9_Witness ==
  /\ prev.name = "restoreScrollPosition"
  /\ op.name = "restoreScrollPosition"
  /\ prev.arg = op.arg
  /\ prev.num = op.num
  /\ scrollCall # <<>>
  /\ Record(op.arg) # Null

Watchers(el) ==
  {i \in 1..Len(dom.observers) : el \in dom.observers[i].targets}

\* the last step was a call of observeAnimationReveal that was not stopped
\* by the platform guard
ActiveCall ==
  /\ rop.name = "observeAnimationReveal"
  /\ (rop.platformId = "undefined" \/ rop.platformId = "browser")

\* C11: registration is idempotent: after a call of observeAnimationReveal
\* that passes the platform guard every matching candidate is flagged as
\* observed and was attached to an observer exactly once, and no candidate is
\* ever attached a second time or held by two observers, however many calls
\* with the same marker class follow.
C11_RegisteredOnce ==
  /\ \A el \in Elems : registered[el] <= 1 /\ Cardinality(Watchers(el)) <= 1
  /\ ActiveCall =>
       \A el \in querySelectorAll(dom, rop.className) :
         el \in dom.revealObserved /\ registered[el] = 1

\* a further call with the same marker class met a candidate that an
\* earlier call had registered
C11_Witness ==
  /\ ActiveCall
  /\ Len(dom.observers) >= 2
  /\ \E el \in querySelectorAll(dom, rop.className) :
       /\ registered[el] = 1
       /\ Watchers(el) # {}
       /\ Len(dom.observers) \notin Watchers(el)

\* C12: the 'in-view' marker of a candidate goes from absent to present at
\* most once and never back: no call of observeAnimationReveal, no report of
\* an observer (intersecting or not) and no change of view removes it.
C12_NeverReverts == [][InView(dom) \subseteq InView(dom')]_vars

\* a candidate is visible, and the step before was a report without
\* isIntersecting or a further call for its marker class
C12_Witness ==
  /\ wasInView # {}
  /\ wasInView \subseteq InView(dom)
  /\ \/ rop.name = "intersection" /\ rop.others # {}
     \/ ActiveCall /\ wasInView \cap querySelectorAll(dom, rop.className) # {}

\* C13: if the user prefers reduced motion, a call of
\* observeAnimationReveal marks every matching candidate visible during the
\* call and leaves no observer subscribed to any of them.
C13_ReducedMotionVisible ==
  (host.reducedMotion /\ ActiveCall) =>
    \A el \in querySelectorAll(dom, rop.className) :
      "in-view" \in dom.classList[el] /\ Watchers(el) = {}

\* C14: observers are one-shot per element: a report of observer i marks
\* exactly the targets that entered the viewport visible and detaches exactly
\* those from observer i in the same step; every other target of observer i
\* and every other observer stay as they were, and a report in which no
\* target is intersecting changes nothing.
C14_OneShot ==
  [][rop'.name = "intersection" =>
       /\ InView(dom') = InView(dom) \cup rop'.entering
       /\ Len(dom'.observers) = Len(dom.observers)
       /\ \A j \in 1..Len(dom.observers) :
            dom'.observers[j].targets =
              IF j = rop'.i THEN dom.observers[j].targets \ rop'.entering
              ELSE dom.observers[j].targets
       /\ rop'.entering = {} => dom' = dom]_vars

\* an observer reported one of its targets as entering, and it is still
\* subscribed to another target, which is not visible yet
C14_Witness ==
  /\ rop.name = "intersection"
  /\ rop.entering # {}
  /\ rop.entering \subseteq InView(dom)
  /\ \E el \in dom.observers[rop.i].targets :
       el \in dom.attached /\ "in-view" \notin dom.classList[el]

\* C15: a call of observeAnimationReveal with a non-browser platform id is
\* a no-op: no element is flagged or marked visible, no class or delay is
\* set, no observer is created, and no error is raised.
C15_InactiveNoOp ==
  [][(rop'.name = "observeAnimationReveal" /\ rop'.platformId = "server") =>
       dom' = dom /\ thrown' = ""]_vars

\* a call with a non-browser platform id met a matching candidate that no
\* call had registered
C15_Witness ==
  /\ rop.name = "observeAnimationReveal"
  /\ rop.platformId = "server"
  /\ querySelectorAll(dom, rop.className) \ dom.revealObserved # {}

\* the elements some call has attached an observer to
EverRegistered == {el \in Elems : registered[el] > 0}

C17_DegradesToVisible ==
  (~host.intersectionObserver /\ ActiveCall) =>
    /\ thrown = ""
    /\ querySelectorAll(dom, rop.className) \subseteq InView(dom)

\* C18: when a view is torn down its subscriptions are released: from then
\* on no observer is subscribed to an element of that view, and no element
\* of that view is marked visible afterwards.
C18_ReleasedOnTeardown ==
  [][\A el \in dom'.destroyed :
       /\ Watchers(el)' = {}
       /\ (el \in dom.destroyed /\ el \in InView(dom')) => el \in InView(dom)]_vars

\* C19: every scroll-memory operation and scrollUp is a silent no-op when
\* sessionStorage or the target element is unavailable: it raises no error
\* and changes neither the storage nor the scroll position nor the location.
C19_SilentNoOp ==
  [][(/\ op'.name \in ScrollMemoryOps
      /\ ~host.sessionStorage \/ (op'.name = "scrollUp" /\ op'.el = <<>>)) =>
       /\ thrown' = ""
       /\ storage' = storage
       /\ scrollCall' = <<>>
       /\ navTarget' = navTarget]_vars

\* the URLs of the three named paths
NamedUrls == {<<>>, <<"legal-notice">>, <<"privacy-policy">>}

\* the path of the URL, its segments joined (named URLs have at most one)
UrlPath(segs) == IF segs = <<>> THEN "" ELSE segs[1]

\* C20: the route table defines exactly the paths '', 'legal-notice',
\* 'privacy-policy' and '**'; a URL of one of the three named paths is
\* matched by its own route before the wildcard and is not redirected;
\* every other URL matches only the wildcard and is redirected to the home
\* route ''.
C20_RouteResolution ==
  /\ Len(routes) = 4
  /\ {routes[i].path : i \in 1..Len(routes)} =
       {"", "legal-notice", "privacy-policy", "**"}
  /\ resolved # <<>> =>
       LET r == resolved[1]
       IN  IF segments \in NamedUrls
           THEN /\ routes[r.matched].path = UrlPath(segments)
                /\ r.redirects = 0
                /\ r.url = segments
                /\ r.component = routes[r.matched].component
           ELSE /\ Matching(segments) = {4}
                /\ routes[r.matched].path = "**"
                /\ r.redirects = 1
                /\ r.url = <<>>
                /\ r.component = "ContentComponent"

\* the router resolved a URL that starts with a named path and goes on
C20_Witness ==
  /\ resolved # <<>>
  /\ Len(segments) = 2
  /\ segments[1] = "legal-notice"
  /\ resolved[1].redirects = 1
  /\ resolved[1].url = <<>>

\* the form is valid as the claim words it: name and message non-empty, the
\* e-mail address present and well-formed, privacy checked
Filled(f) ==
  /\ f.name \notin {Null, <<>>}
  /\ f.message \notin {Null, <<>>}
  /\ f.email \notin {Null, <<>>} /\ Email(f.email)
  /\ f.privacy = Checked

\* C21: a POST is sent only by onSubmit on a valid form: onSubmit on an
\* invalid form marks all controls touched, sends nothing and leaves
\* formSuccess and formError false; onSubmit on a valid form sends exactly
\* one POST, whose body holds the form's name, email and message and
\* nothing else.
C21_PostOnlyWhenValid ==
  [][/\ sent' # sent => fop'.name = "onSubmit" /\ Filled(form)
     /\ (fop'.name = "onSubmit" /\ ~Filled(form)) =>
          /\ form'.touched = Controls
          /\ sent' = sent /\ inFlight' = inFlight
          /\ ~flags'.formSuccess /\ ~flags'.formError
     /\ (fop'.name = "onSubmit" /\ Filled(form)) =>
          /\ sent' = sent + 1 /\ inFlight' = inFlight \cup {sent'}
          /\ DOMAIN lastBody'[1] = {"name", "email", "message"}
          /\ lastBody'[1].name = form.name
          /\ lastBody'[1].email = form.email
          /\ lastBody'[1].message = form.message]_vars

\* a valid form was posted, and a later onSubmit met an invalid form
C21_Witness ==
  /\ fop.name = "onSubmit"
  /\ sent = 1
  /\ lastBody[1].email = <<"a", "@", "a">>
  /\ ~Filled(form)
  /\ form.touched = Controls

\* C22: formSuccess and formError are never both true, whatever the order
\* of onSubmit calls, responses and hide timers.
C22_NotBoth == ~(flags.formSuccess /\ flags.formError)

\* C23: a success shows the success message, resets the form and clears
\* submitted; the message it shows stays until the hide timer of that same
\* success fires or a new onSubmit clears it.
C23_HiddenByOwnTimer ==
  [][/\ fop'.name = "success" =>
          flags'.formSuccess /\ form' = ResetForm /\ ~flags'.submitted
     /\ (flags.formSuccess /\ ~flags'.formSuccess) =>
          \/ fop'.name = "onSubmit"
          \/ fop'.name = "timer" /\ fop'.id = shownBy]_vars

\* C24: ContentComponent.ngAfterViewInit consumes the pending return anchor
\* unconditionally: afterwards the 'return-anchor' slot is empty, whether or
\* not an element with the stored id exists, and a scroll is issued only if
\* an anchor was pending and its element exists, to the element's top
\* (rect top plus window.scrollY) minus the header offset of 117 px.
C24_ConsumedUnconditionally ==
  op.name = "ngAfterViewInit" =>
    /\ Anchor = Null
    /\ scrollCall =
         IF op.arg \notin {Null, <<>>} /\ op.el # <<>>
         THEN <<(op.el[1] + op.y) - (2 * 117)>>
         ELSE <<>>

\* the root view was created with an anchor pending whose element does not
\* exist
C24_Witness ==
  /\ op.name = "ngAfterViewInit"
  /\ op.arg = Footer
  /\ op.el = <<>>
  /\ scrollCall = <<>>

\* some entry of the last call reported isIntersecting = true
Entered(entries) == \E k \in 1..Len(entries) : entries[k]

\* C25: RevealOnceDirective reveals its host exactly once: under reduced
\* motion ngOnInit adds 'in-view' at once and creates no observer;
\* otherwise 'in-view' is added by the first call of the callback that
\* carries a report with isIntersecting = true, which also disconnects the
\* observer; reports without it change nothing; ngOnDestroy disconnects the
\* observer, and 'in-view' is never added after it.
C25_RevealsOnce ==
  [][/\ dop'.name = "ngOnInit" =>
          IF host.reducedMotion
          THEN "in-view" \in directive'.classList /\ ~directive'.observer
          ELSE "in-view" \notin directive'.classList /\ directive'.observing
     /\ dop'.name = "intersection" =>
          IF Entered(dop'.entries)
          THEN "in-view" \in directive'.classList /\ ~directive'.observing
          ELSE directive' = directive
     /\ dop'.name = "ngOnDestroy" => ~directive'.observing
     /\ directive.life = "destroyed" => directive' = directive]_vars

C27_AccentConsistent ==
  header.constructed =>
    /\ header.currentAccent \in
         {"blue", "emerald", "purple", "pink", "black", "white"}
    /\ localStorage.accent = <<header.currentAccent>>
    /\ header.dataAccent = <<header.currentAccent>>

\* an unknown value was selected and the accent is 'blue'
C27_Witness ==
  /\ hop.name = "onAccentChange"
  /\ hop.value = "teal"
  /\ header.currentAccent = "blue"
  /\ localStorage.accent = <<"blue">>

\* C28: the current accent is never the one unavailable for the current
\* colour scheme: once the header is constructed, in dark mode it is never
\* 'black' and in light mode never 'white'.
C28_AccentAvailable ==
  header.constructed =>
    header.currentAccent # (IF prefersDark THEN "black" ELSE "white")

\* C29: the language activated at startup is 'de' or 'en', whatever the
\* persisted 'lang' entry holds and on any platform.
C29_StartupLanguage ==
  app.constructed => usedAtStartup \in {<<"de">>, <<"en">>}

\* the last step was scrollUp of the footer or the header
ScrolledUp(o) == o.name \in {"footer.scrollUp", "header.scrollUp"}

====
